---- MODULE Spec2Model ----
(***************************************************************************)
(* Model of src/pass.rs: the DrawImgui render group of amethyst-imgui.     *)
(* prepare() flattens the UI toolkit's draw lists into one vertex and one  *)
(* index buffer and records one DrawCmdOps per indexed-draw command;       *)
(* draw_inline() replays the recorded commands on a render pass encoder    *)
(* and clears them; dispose() destroys the pipeline objects.               *)
(***************************************************************************)
EXTENDS Integers, Sequences, FiniteSets, TLC

\* ------------------------------------------------------------------ bounds
\* Largest number of draw lists in one frame's draw data.
MaxLists == 2
\* Largest number of draw commands (of any kind) in one frame's draw data.
MaxCmds == 2
\* Largest number of commands left in self.commands when a prepare starts.
MaxPending == 2

\* ------------------------------------------------------------------ inputs
\* Frame-in-flight indices the render graph passes as `index`.
Slots == {0, 1}
\* Texture handles the UI refers to.
TextureIds == {1, 2}
\* Display sizes (w, h) reported by the UI toolkit.
DisplaySizes == {<<800, 600>>}
\* Marker for "no UI frame is current".
NoUi == [kind |-> "NoUi"]

\* The three variants of imgui::DrawCmd.
Elements(count, clip_rect, texture_id) ==
    [kind |-> "Elements", count |-> count, clip_rect |-> clip_rect, texture_id |-> texture_id]

ResetRenderState == [kind |-> "ResetRenderState"]

RawCallback == [kind |-> "RawCallback"]

\* The draw commands a frame is built from: two textured quads with clip
\* rectangles (x1, y1, x2, y2), the reset marker and a raw callback.
DrawCmds ==
    { Elements(6, <<0, 0, 100, 50>>, 1),
      Elements(6, <<-20000, 10, 20000, 30>>, 2),
      ResetRenderState,
      RawCallback }

\* ----------------------------------------------------------------- helpers
Range(a, b) == [start |-> a, end |-> b]

RECURSIVE SumSeq(_)
SumSeq(s) == IF s = <<>> THEN 0 ELSE Head(s) + SumSeq(Tail(s))

\* Sequences over S of length at most n.
RECURSIVE SeqsUpTo(_, _)
SeqsUpTo(S, n) ==
    IF n = 0 THEN {<<>>}
    ELSE {<<>>} \cup {<<x>> \o s : x \in S, s \in SeqsUpTo(S, n - 1)}

\* Rust `as u32` of a usize: n mod 2^32, written with 2^16 factors.
AsU32(n) == n - ((n \div 65536) \div 65536) * 65536 * 65536

\* Rust `as i16` of an integer-valued f32: a saturating cast.
AsI16(v) == IF v > 32767 THEN 32767 ELSE IF v < -32768 THEN -32768 ELSE v

\* Number of indices an indexed-draw command consumes (others consume none).
ElemCount(cmd) == IF cmd.kind = "Elements" THEN cmd.count ELSE 0

\* Number of indexed-draw commands among cmds.
NumElements(cmds) == Cardinality({j \in 1..Len(cmds) : cmds[j].kind = "Elements"})

\* The k-th vertex of a draw list, as the UI toolkit emits it.
DrawVert(k) == [pos |-> <<k, k>>, uv |-> <<k % 2, (k \div 2) % 2>>, col |-> k]

\* One draw list of the toolkit holding the commands cmds: every indexed-draw
\* command is a quad of 4 vertices and `count` = 6 indices, the indices being
\* relative to the list's own vertices.
DrawList(cmds) ==
    [vtx_buffer |-> [k \in 1..(4 * NumElements(cmds)) |-> DrawVert(k)],
     idx_buffer |-> [k \in 1..SumSeq([j \in 1..Len(cmds) |-> ElemCount(cmds[j])])
                       |-> 4 * ((k - 1) \div 6) + <<0, 1, 2, 0, 2, 3>>[((k - 1) % 6) + 1]],
     cmd_buffer |-> cmds]

\* Draw data of at most nl lists holding at most nc commands altogether.
RECURSIVE DrawDatas(_, _)
DrawDatas(nl, nc) ==
    IF nl = 0 THEN {<<>>}
    ELSE {<<>>} \cup
         UNION { { <<DrawList(cmds)>> \o rest : rest \in DrawDatas(nl - 1, nc - Len(cmds)) }
                 : cmds \in SeqsUpTo(DrawCmds, nc) }

\* What imgui::Ui::current_ui() can yield in prepare.
Uis ==
    {NoUi} \cup
    { [kind |-> "Ui", display_size |-> d, draw_data |-> dd]
      : d \in DisplaySizes, dd \in DrawDatas(MaxLists, MaxCmds) }

\* ------------------------------------------------------------------- state
VARIABLES
    commands,          \* DrawImgui.commands : Vec<DrawCmdOps>
    vertex,            \* DrawImgui.vertex   : per slot, the number of vertices last written
    index,             \* DrawImgui.index    : per slot, the number of indices last written
    constant,          \* DrawImgui.constant : ImguiPushConstant
    loaded,            \* DrawImgui.textures : the texture ids that are loaded
    pipeline,          \* DrawImgui.pipeline
    pipeline_layout,   \* DrawImgui.pipeline_layout
    encoder,           \* calls recorded on the RenderPassEncoder of the current draw
    ui,                \* the UI frame the current frame's prepare rendered
    result,            \* the PrepareResult of the current frame's prepare
    slot,              \* the frame-in-flight index of the current frame
    pc,                \* the driver's position: "unbuilt", "failed", "idle", "prepared", "drawn", "disposed"
    device,            \* calls made on factory / factory.device() for the pipeline objects
    maintains,         \* number of textures.maintain calls of the current frame's prepare
    callbacks,         \* raw callbacks invoked by the current frame's prepare
    inflight           \* slots whose draw submission has not retired yet

vars == <<commands, vertex, index, constant, loaded, pipeline, pipeline_layout,
          encoder, ui, result, slot, pc, device, maintains, callbacks, inflight>>

\* ------------------------------------------------------------------- build
\* build_imgui_pipeline returning the pipeline error without releasing the layout.
BuildImguiPipelineLeaksLayout(layout_ok, shaders_ok, pipes_ok) ==
    IF ~layout_ok
    THEN [calls |-> <<[op |-> "create_pipeline_layout", ok |-> FALSE]>>,
          result |-> "Err", pipeline |-> "none", pipeline_layout |-> "none"]
    ELSE IF ~shaders_ok
    THEN [calls |-> <<[op |-> "create_pipeline_layout", ok |-> TRUE],
                      [op |-> "create_shader_module", ok |-> FALSE]>>,
          result |-> "Panic", pipeline |-> "none", pipeline_layout |-> "live"]
    ELSE [calls |-> <<[op |-> "create_pipeline_layout", ok |-> TRUE],
                      [op |-> "create_shader_module", ok |-> TRUE],
                      [op |-> "create_shader_module", ok |-> TRUE],
                      [op |-> "create_graphics_pipeline", ok |-> pipes_ok],
                      [op |-> "destroy_shader_module", ok |-> TRUE],
                      [op |-> "destroy_shader_module", ok |-> TRUE]>>,
          result |-> IF pipes_ok THEN "Ok" ELSE "Err",
          pipeline |-> IF pipes_ok THEN "live" ELSE "none",
          pipeline_layout |-> "live"]

\* build_imgui_pipeline: layout_ok, shaders_ok and pipes_ok tell whether
\* create_pipeline_layout, the shader modules (unwrapped) and the pipeline
\* build succeed.  Yields the device calls made and what is returned.
BuildImguiPipeline(layout_ok, shaders_ok, pipes_ok) ==
    IF ~layout_ok
    THEN [calls |-> <<[op |-> "create_pipeline_layout", ok |-> FALSE]>>,
          result |-> "Err", pipeline |-> "none", pipeline_layout |-> "none"]
    ELSE IF ~shaders_ok
    THEN [calls |-> <<[op |-> "create_pipeline_layout", ok |-> TRUE],
                      [op |-> "create_shader_module", ok |-> FALSE]>>,
          result |-> "Panic", pipeline |-> "none", pipeline_layout |-> "live"]
    ELSE LET made == <<[op |-> "create_pipeline_layout", ok |-> TRUE],
                       [op |-> "create_shader_module", ok |-> TRUE],
                       [op |-> "create_shader_module", ok |-> TRUE],
                       [op |-> "create_graphics_pipeline", ok |-> pipes_ok],
                       [op |-> "destroy_shader_module", ok |-> TRUE],
                       [op |-> "destroy_shader_module", ok |-> TRUE]>>
         IN  IF pipes_ok
             THEN [calls |-> made,
                   result |-> "Ok", pipeline |-> "live", pipeline_layout |-> "live"]
             ELSE [calls |-> Append(made, [op |-> "destroy_pipeline_layout", ok |-> TRUE]),
                   result |-> "Err", pipeline |-> "none", pipeline_layout |-> "destroyed"]

\* ImguiPushConstant::default(): scale (1, 1), translation (0, 0).
\* A component is a fraction <<numerator, denominator>>.
ImguiPushConstantDefault == [scale |-> <<<<1, 1>>, <<1, 1>>>>, translation |-> <<<<0, 1>>, <<0, 1>>>>]

\* The render group as DrawImguiDesc::build leaves it.
Init ==
    /\ commands = <<>>
    /\ vertex = [s \in Slots |-> 0]
    /\ index = [s \in Slots |-> 0]
    /\ constant = ImguiPushConstantDefault
    /\ loaded = {}
    /\ pipeline = "live"
    /\ pipeline_layout = "live"
    /\ encoder = <<>>
    /\ ui = NoUi
    /\ result = "None"
    /\ slot = 0
    /\ pc = "idle"
    /\ device = BuildImguiPipeline(TRUE, TRUE, TRUE).calls
    /\ maintains = 0
    /\ callbacks = <<>>
    /\ inflight = {}

\* The state before DrawImguiDesc::build has run.
InitUnbuilt ==
    /\ commands = <<>>
    /\ vertex = [s \in Slots |-> 0]
    /\ index = [s \in Slots |-> 0]
    /\ constant = ImguiPushConstantDefault
    /\ loaded = {}
    /\ pipeline = "none"
    /\ pipeline_layout = "none"
    /\ encoder = <<>>
    /\ ui = NoUi
    /\ result = "None"
    /\ slot = 0
    /\ pc = "unbuilt"
    /\ device = <<>>
    /\ maintains = 0
    /\ callbacks = <<>>
    /\ inflight = {}

\* DrawImguiDesc::build: TextureSub::new, then build_imgui_pipeline, each
\* error returned with `?`; on success the DrawImgui group exists.
Build(textures_ok, layout_ok, shaders_ok, pipes_ok) ==
    IF ~textures_ok
    THEN /\ pc' = "failed"
         /\ UNCHANGED <<commands, vertex, index, constant, loaded, pipeline, pipeline_layout,
                        encoder, ui, result, slot, device, maintains, callbacks, inflight>>
    ELSE LET b == BuildImguiPipeline(layout_ok, shaders_ok, pipes_ok) IN
         /\ device' = device \o b.calls
         /\ pipeline' = b.pipeline
         /\ pipeline_layout' = b.pipeline_layout
         /\ pc' = IF b.result = "Ok" THEN "idle"
                  ELSE IF b.result = "Panic" THEN "panicked" ELSE "failed"
         /\ UNCHANGED <<commands, vertex, index, constant, loaded, encoder, ui, result, slot,
                        maintains, callbacks, inflight>>

\* ----------------------------------------------------------------- prepare
\* DrawVert -> ImguiArgs, the `(*v).into()` of the vertex copy.
ImguiArgsFrom(v) == [position |-> v.pos, tex_coord |-> v.uv, color |-> v.col]

\* transmute::<u32, TextureId>(texture_id as u32)
TextureIdFrom(texture_id) == AsU32(texture_id)

\* ScissorOf taking the far corner for the extent.
ScissorOfNoSubtract(clip_rect) ==
    [x |-> AsI16(clip_rect[1]),
     y |-> AsI16(clip_rect[2]),
     w |-> AsI16(clip_rect[3]),
     h |-> AsI16(clip_rect[4])]

\* hal::pso::Rect built from a command's clip_rect.
ScissorOf(clip_rect) ==
    [x |-> AsI16(clip_rect[1]),
     y |-> AsI16(clip_rect[2]),
     w |-> AsI16(clip_rect[3] - clip_rect[1]),
     h |-> AsI16(clip_rect[4] - clip_rect[2])]

\* DrawCmdOps with the vertex range's end computed from the index buffer.
DrawCmdOpsWrongEnd(nvert, nidx, draw_list, draw_cmd) ==
    [vertex_range |-> Range(AsU32(nvert), AsU32(nvert + Len(draw_list.idx_buffer))),
     index_range |-> Range(AsU32(nidx), AsU32(nidx + Len(draw_list.idx_buffer))),
     scissor |-> ScissorOf(draw_cmd.clip_rect),
     texture_id |-> TextureIdFrom(draw_cmd.texture_id)]

\* The DrawCmdOps pushed for an Elements command of draw_list while the flat
\* buffers hold nvert vertices and nidx indices.
DrawCmdOps(nvert, nidx, draw_list, draw_cmd) ==
    [vertex_range |-> Range(AsU32(nvert), AsU32(nvert + Len(draw_list.vtx_buffer))),
     index_range |-> Range(AsU32(nidx), AsU32(nidx + Len(draw_list.idx_buffer))),
     scissor |-> ScissorOf(draw_cmd.clip_rect),
     texture_id |-> TextureIdFrom(draw_cmd.texture_id)]

\* The call `callback(draw_list.raw(), raw_cmd)`, with the sizes of the
\* command list and of the flat buffers at the time of the call.
CallbackCall(acc, draw_list, draw_cmd) ==
    [raw_list |-> draw_list, raw_cmd |-> draw_cmd,
     commands |-> Len(acc.commands), vertices |-> Len(acc.vertices), indices |-> Len(acc.indices)]

\* ProcessCmd with the new command put in front of the list instead of behind.
ProcessCmdPrepends(acc, draw_list, draw_cmd) ==
    IF draw_cmd.kind = "Elements"
    THEN [acc EXCEPT !.commands =
            <<DrawCmdOps(Len(acc.vertices), Len(acc.indices), draw_list, draw_cmd)>> \o @]
    ELSE IF draw_cmd.kind = "RawCallback"
    THEN [acc EXCEPT !.callbacks = Append(@, CallbackCall(acc, draw_list, draw_cmd))]
    ELSE acc

\* ProcessCmd whose reset-render-state arm empties the command list.
ProcessCmdResetClears(acc, draw_list, draw_cmd) ==
    IF draw_cmd.kind = "Elements"
    THEN [acc EXCEPT !.commands =
            Append(@, DrawCmdOps(Len(acc.vertices), Len(acc.indices), draw_list, draw_cmd))]
    ELSE IF draw_cmd.kind = "RawCallback"
    THEN [acc EXCEPT !.callbacks = Append(@, CallbackCall(acc, draw_list, draw_cmd))]
    ELSE [acc EXCEPT !.commands = <<>>]

\* ProcessCmd whose raw-callback arm does nothing.
ProcessCmdDropsCallback(acc, draw_list, draw_cmd) ==
    IF draw_cmd.kind = "Elements"
    THEN [acc EXCEPT !.commands =
            Append(@, DrawCmdOps(Len(acc.vertices), Len(acc.indices), draw_list, draw_cmd))]
    ELSE acc

\* One arm of the match on draw_cmd; acc holds self.commands and the local
\* vertices and indices.
ProcessCmd(acc, draw_list, draw_cmd) ==
    IF draw_cmd.kind = "Elements"
    THEN [acc EXCEPT !.commands =
            Append(@, DrawCmdOps(Len(acc.vertices), Len(acc.indices), draw_list, draw_cmd))]
    ELSE IF draw_cmd.kind = "RawCallback"
    THEN [acc EXCEPT !.callbacks = Append(@, CallbackCall(acc, draw_list, draw_cmd))]
    ELSE acc

\* The inner loop over draw_list.cmd_buffer, from command k on.
RECURSIVE ProcessCmds(_, _, _)
ProcessCmds(acc, draw_list, k) ==
    IF k > Len(draw_list.cmd_buffer) THEN acc
    ELSE ProcessCmds(ProcessCmd(acc, draw_list, draw_list.cmd_buffer[k]), draw_list, k + 1)

\* ProcessList that leaves out the data of a list holding a raw callback.
ProcessListSkipsCallbackData(acc, draw_list) ==
    LET a == ProcessCmds(acc, draw_list, 1) IN
    IF \E k \in 1..Len(draw_list.cmd_buffer) : draw_list.cmd_buffer[k].kind = "RawCallback"
    THEN a
    ELSE [a EXCEPT
            !.vertices = @ \o [k \in 1..Len(draw_list.vtx_buffer) |-> ImguiArgsFrom(draw_list.vtx_buffer[k])],
            !.indices = @ \o draw_list.idx_buffer]

\* One iteration of the outer loop: the list's commands, then its vertices
\* and indices appended to the flat buffers.
ProcessList(acc, draw_list) ==
    LET a == ProcessCmds(acc, draw_list, 1) IN
    [a EXCEPT
        !.vertices = @ \o [k \in 1..Len(draw_list.vtx_buffer) |-> ImguiArgsFrom(draw_list.vtx_buffer[k])],
        !.indices = @ \o draw_list.idx_buffer]

\* The outer loop over the draw data, from list l on.
RECURSIVE ProcessLists(_, _, _)
ProcessLists(acc, draw_data, l) ==
    IF l > Len(draw_data) THEN acc
    ELSE ProcessLists(ProcessList(acc, draw_data[l]), draw_data, l + 1)

\* The closure passed to ui.render: starts from self.commands and empty
\* vertices and indices.
Assemble(cmds, draw_data) ==
    ProcessLists([commands |-> cmds, vertices |-> <<>>, indices |-> <<>>, callbacks |-> <<>>],
                 draw_data, 1)

\* ConstantFor with the two scale components exchanged.
ConstantForSwapped(display_size) ==
    [scale |-> <<<<2, display_size[2]>>, <<2, display_size[1]>>>>,
     translation |-> <<<<-1, 1>>, <<-1, 1>>>>]

\* The push constant prepare computes from the display size.
ConstantFor(display_size) ==
    [scale |-> <<<<2, display_size[1]>>, <<2, display_size[2]>>>>,
     translation |-> <<<<-1, 1>>, <<-1, 1>>>>]

\* A prepare that reports DrawRecord only for a non-empty command list.
PrepareResultIfAny(cmds) == IF cmds = <<>> THEN "DrawReuse" ELSE "DrawRecord"

\* What prepare returns.
PrepareResult(cmds) == "DrawRecord"

\* A prepare that writes the buffers of slot 0 whatever its index is.
PrepareWritesSlotZero(i, u, ld) ==
    /\ IF u = NoUi
       THEN /\ UNCHANGED <<commands, vertex, index, constant>>
            /\ maintains' = 0
            /\ callbacks' = <<>>
       ELSE LET a == Assemble(commands, u.draw_data) IN
            /\ constant' = ConstantFor(u.display_size)
            /\ commands' = a.commands
            /\ vertex' = [vertex EXCEPT ![0] = Len(a.vertices)]
            /\ index' = [index EXCEPT ![0] = Len(a.indices)]
            /\ maintains' = 1
            /\ callbacks' = a.callbacks
    /\ loaded' = ld
    /\ result' = PrepareResult(commands')
    /\ ui' = u
    /\ slot' = i
    /\ encoder' = <<>>
    /\ UNCHANGED <<pipeline, pipeline_layout, device, inflight>>

\* DrawImgui::prepare(index) with current_ui() = u; ld is the set of loaded
\* textures once the texture subsystem has been updated.
Prepare(i, u, ld) ==
    /\ IF u = NoUi
       THEN /\ UNCHANGED <<commands, vertex, index, constant>>
            /\ maintains' = 0
            /\ callbacks' = <<>>
       ELSE LET a == Assemble(commands, u.draw_data) IN
            /\ constant' = ConstantFor(u.display_size)
            /\ commands' = a.commands
            /\ vertex' = [vertex EXCEPT ![i] = Len(a.vertices)]
            /\ index' = [index EXCEPT ![i] = Len(a.indices)]
            /\ maintains' = 1
            /\ callbacks' = a.callbacks
    /\ loaded' = ld
    /\ result' = PrepareResult(commands')
    /\ ui' = u
    /\ slot' = i
    /\ encoder' = <<>>
    /\ UNCHANGED <<pipeline, pipeline_layout, device, inflight>>

\* ------------------------------------------------------------- draw_inline
\* EncodeCmd without the pipeline bind.
EncodeCmdNoPipelineBind(draw, i, ld, c) ==
    <<[op |-> "bind_vertex", slot |-> i],
      [op |-> "bind_index", slot |-> i]>>
    \o (IF draw.texture_id \in ld
        THEN <<[op |-> "bind_texture", texture_id |-> draw.texture_id]>>
        ELSE <<>>)
    \o <<[op |-> "set_scissors", rect |-> draw.scissor],
         [op |-> "push_constants", data |-> c],
         [op |-> "draw_indexed", indices |-> draw.index_range,
          base_vertex |-> draw.vertex_range.start, instances |-> Range(0, 1)]>>

\* EncodeCmd drawing with base vertex 0.
EncodeCmdBaseZero(draw, i, ld, c) ==
    <<[op |-> "bind_graphics_pipeline"],
      [op |-> "bind_vertex", slot |-> i],
      [op |-> "bind_index", slot |-> i]>>
    \o (IF draw.texture_id \in ld
        THEN <<[op |-> "bind_texture", texture_id |-> draw.texture_id]>>
        ELSE <<>>)
    \o <<[op |-> "set_scissors", rect |-> draw.scissor],
         [op |-> "push_constants", data |-> c],
         [op |-> "draw_indexed", indices |-> draw.index_range,
          base_vertex |-> 0, instances |-> Range(0, 1)]>>

\* The encoder calls of one iteration of the loop over self.commands.
EncodeCmd(draw, i, ld, c) ==
    <<[op |-> "bind_graphics_pipeline"],
      [op |-> "bind_vertex", slot |-> i],
      [op |-> "bind_index", slot |-> i]>>
    \o (IF draw.texture_id \in ld
        THEN <<[op |-> "bind_texture", texture_id |-> draw.texture_id]>>
        ELSE <<>>)
    \o <<[op |-> "set_scissors", rect |-> draw.scissor],
         [op |-> "push_constants", data |-> c],
         [op |-> "draw_indexed", indices |-> draw.index_range,
          base_vertex |-> draw.vertex_range.start, instances |-> Range(0, 1)]>>

\* EncodeAll replaying the commands last to first.
RECURSIVE EncodeAllReversed(_, _, _, _)
EncodeAllReversed(cmds, i, ld, c) ==
    IF cmds = <<>> THEN <<>>
    ELSE EncodeAllReversed(Tail(cmds), i, ld, c) \o EncodeCmd(Head(cmds), i, ld, c)

\* The loop over self.commands.
RECURSIVE EncodeAll(_, _, _, _)
EncodeAll(cmds, i, ld, c) ==
    IF cmds = <<>> THEN <<>>
    ELSE EncodeCmd(Head(cmds), i, ld, c) \o EncodeAll(Tail(cmds), i, ld, c)

\* A draw_inline that keeps the command list.
CommandsAfterDrawKept(cmds) == cmds

\* self.commands after draw_inline: cleared.
CommandsAfterDraw(cmds) == <<>>

\* DrawImgui::draw_inline(encoder, index)
DrawInline(i) ==
    /\ encoder' = EncodeAll(commands, i, loaded, constant)
    /\ commands' = CommandsAfterDraw(commands)
    /\ UNCHANGED <<vertex, index, constant, loaded, pipeline, pipeline_layout, ui, result, slot,
                   device, maintains, callbacks, inflight>>

\* ----------------------------------------------------------------- dispose
\* A dispose that destroys the pipeline but not its layout.
DisposeKeepsLayout ==
    /\ pipeline' = "destroyed"
    /\ pipeline_layout' = pipeline_layout
    /\ device' = Append(device, [op |-> "destroy_graphics_pipeline", ok |-> TRUE])
    /\ UNCHANGED <<commands, vertex, index, constant, loaded, encoder, ui, result, slot,
                   maintains, callbacks, inflight>>

\* DrawImgui::dispose
Dispose ==
    /\ pipeline' = "destroyed"
    /\ pipeline_layout' = "destroyed"
    /\ device' = device \o <<[op |-> "destroy_graphics_pipeline", ok |-> TRUE],
                             [op |-> "destroy_pipeline_layout", ok |-> TRUE]>>
    /\ UNCHANGED <<commands, vertex, index, constant, loaded, encoder, ui, result, slot,
                   maintains, callbacks, inflight>>

\* ------------------------------------------------------------------ driver
\* The render graph calls prepare, then draw_inline with the same index on a
\* fresh encoder, once per frame, and dispose at shutdown.  Textures the UI
\* registered become loaded by the insert calls of a later prepare.
DriverPrepare ==
    /\ pc = "idle"
    /\ \E i \in Slots, u \in Uis, ld \in {loaded} \cup {loaded \cup {t} : t \in TextureIds} :
          Prepare(i, u, ld)
    /\ pc' = "prepared"

DriverDraw ==
    /\ pc = "prepared"
    /\ DrawInline(slot)
    /\ pc' = "drawn"

\* The encoder handed to draw_inline is consumed there; the frame is over.
DriverSubmit ==
    /\ pc = "drawn"
    /\ encoder' = <<>>
    /\ ui' = NoUi
    /\ result' = "None"
    /\ slot' = 0
    /\ pc' = "idle"
    /\ maintains' = 0
    /\ callbacks' = <<>>
    /\ UNCHANGED <<commands, vertex, index, constant, loaded, pipeline, pipeline_layout,
                   device, inflight>>

DriverDispose ==
    /\ pc = "idle"
    /\ Dispose
    /\ pc' = "disposed"

Next == DriverPrepare \/ DriverDraw \/ DriverSubmit \/ DriverDispose

Spec == Init /\ [][Next]_vars

\* ------------------------------------------------- life cycle with frames
\* The whole life of a render group: build, then frames of one short draw
\* list on any display size, with up to both slots' submissions outstanding,
\* then dispose.  The driver prepares only on a slot that has retired.
LifeCmds == DrawCmds \cup {Elements(6, <<10, 20, 110, 70>>, 1)}

LifeDisplaySizes == {<<800, 600>>, <<4, 2>>, <<1, 3>>}

LifeUis ==
    {NoUi} \cup
    { [kind |-> "Ui", display_size |-> d, draw_data |-> dd]
      : d \in LifeDisplaySizes,
        dd \in {<<>>} \cup {<<DrawList(<<c>>)>> : c \in LifeCmds} }

LifeBuild ==
    /\ pc = "unbuilt"
    /\ \E textures_ok, layout_ok, shaders_ok, pipes_ok \in BOOLEAN :
          Build(textures_ok, layout_ok, shaders_ok, pipes_ok)

LifePrepare ==
    /\ pc = "idle"
    /\ \E i \in Slots \ inflight, u \in LifeUis,
          ld \in {loaded} \cup {loaded \cup {t} : t \in TextureIds} :
          Prepare(i, u, ld)
    /\ pc' = "prepared"

\* The recorded pass is submitted: its slot is in use until it retires.
LifeSubmit ==
    /\ pc = "drawn"
    /\ inflight' = inflight \cup {slot}
    /\ encoder' = <<>>
    /\ ui' = NoUi
    /\ result' = "None"
    /\ slot' = 0
    /\ pc' = "idle"
    /\ maintains' = 0
    /\ callbacks' = <<>>
    /\ UNCHANGED <<commands, vertex, index, constant, loaded, pipeline, pipeline_layout, device>>

\* The GPU has finished the submission that used slot s.
LifeRetire ==
    /\ pc \in {"idle", "prepared", "drawn"}
    /\ \E s \in inflight : inflight' = inflight \ {s}
    /\ UNCHANGED <<commands, vertex, index, constant, loaded, pipeline, pipeline_layout,
                   encoder, ui, result, slot, pc, device, maintains, callbacks>>

LifeNext == LifeBuild \/ LifePrepare \/ DriverDraw \/ LifeSubmit \/ LifeRetire \/ DriverDispose

SpecLife == InitUnbuilt /\ [][LifeNext]_vars

\* ------------------------------------------------ calls in any order
\* prepare and draw_inline are separate trait methods: here prepare may be
\* called again before the previous frame was drawn, on any slot, and
\* draw_inline is called with the index of the latest prepare.
FreeUis ==
    {NoUi} \cup
    { [kind |-> "Ui", display_size |-> d, draw_data |-> dd]
      : d \in DisplaySizes,
        dd \in {<<>>, <<DrawList(<<Elements(6, <<0, 0, 100, 50>>, 1)>>)>>} }

FreePrepare ==
    /\ pc \in {"idle", "prepared", "drawn"}
    /\ Len(commands) <= MaxPending
    /\ \E i \in Slots, u \in FreeUis, ld \in {loaded} \cup {loaded \cup {t} : t \in TextureIds} :
          Prepare(i, u, ld)
    /\ pc' = "prepared"

FreeDraw ==
    /\ pc = "prepared"
    /\ DrawInline(slot)
    /\ pc' = "drawn"

FreeNext == FreePrepare \/ FreeDraw

SpecFree == Init /\ [][FreeNext]_vars

\* ------------------------------------------------------ reading the frames
\* All commands of the draw data in iteration order, each with its list.
RECURSIVE FlatCmds(_, _)
FlatCmds(dd, l) ==
    IF l > Len(dd) THEN <<>>
    ELSE [k \in 1..Len(dd[l].cmd_buffer) |-> [list |-> l, cmd |-> dd[l].cmd_buffer[k]]]
         \o FlatCmds(dd, l + 1)

IsElements(e) == e.cmd.kind = "Elements"

\* The indexed-draw commands of the draw data, in order.
IndexedDraws(dd) == SelectSeq(FlatCmds(dd, 1), IsElements)

\* Where list l's vertices / indices start in the flat buffers.
ListStartV(dd, l) == SumSeq([m \in 1..(l - 1) |-> Len(dd[m].vtx_buffer)])

ListStartI(dd, l) == SumSeq([m \in 1..(l - 1) |-> Len(dd[m].idx_buffer)])

\* Positions of the encoder calls named op.
Positions(enc, op) == {k \in 1..Len(enc) : enc[k].op = op}

IsDrawIndexed(e) == e.op = "draw_indexed"

IsSetScissors(e) == e.op = "set_scissors"

IsPerCommandCall(e) == e.op \in {"set_scissors", "push_constants", "draw_indexed"}

DrawCalls(enc) == SelectSeq(enc, IsDrawIndexed)

ScissorCalls(enc) == SelectSeq(enc, IsSetScissors)

\* The indexed-draw commands of the frame being processed.
FrameDraws == IF ui = NoUi THEN <<>> ELSE IndexedDraws(ui.draw_data)

\* ------------------------------------------------------------------ claims
\* C1: the DrawCmdOps a prepare appends are, in order, exactly the Elements
\* commands of its draw lists (list by list, command by command), the reset
\* markers and raw callbacks left out: as many, each with its own texture,
\* clip origin and list offsets.
C1_OrderPreserved ==
    pc = "prepared" =>
        /\ Len(commands) = Len(FrameDraws)
        /\ \A j \in 1..Len(FrameDraws) :
              /\ commands[j].texture_id = FrameDraws[j].cmd.texture_id
              /\ commands[j].scissor.x = FrameDraws[j].cmd.clip_rect[1]
              /\ commands[j].vertex_range.start = ListStartV(ui.draw_data, FrameDraws[j].list)
              /\ commands[j].index_range.start = ListStartI(ui.draw_data, FrameDraws[j].list)

\* A frame of two lists whose indexed draws come out in the lists' order.
C1_Witness ==
    /\ pc = "prepared"
    /\ ui # NoUi
    /\ Len(ui.draw_data) = 2
    /\ Len(commands) = 2
    /\ commands[1].texture_id = 2
    /\ commands[2].texture_id = 1
    /\ commands[2].vertex_range.start = 4

\* C2: for every draw list, the vertex ranges and the index ranges of the
\* commands produced from it, in command order, partition the list's slice of
\* the flat buffers: the first starts where the slice starts, each next one
\* starts where the previous ends, the last ends where the slice ends.
C2_RangesPartitionList ==
    (pc = "prepared" /\ ui # NoUi) =>
        \A l \in 1..Len(ui.draw_data) :
            LET J == {j \in 1..Len(FrameDraws) : FrameDraws[j].list = l}
                first == CHOOSE j \in J : \A i \in J : j <= i
                last == CHOOSE j \in J : \A i \in J : i <= j
            IN  J # {} =>
                /\ commands[first].vertex_range.start = ListStartV(ui.draw_data, l)
                /\ commands[first].index_range.start = ListStartI(ui.draw_data, l)
                /\ commands[last].vertex_range.end =
                      ListStartV(ui.draw_data, l) + Len(ui.draw_data[l].vtx_buffer)
                /\ commands[last].index_range.end =
                      ListStartI(ui.draw_data, l) + Len(ui.draw_data[l].idx_buffer)
                /\ \A j \in J : (j + 1) \in J =>
                      /\ commands[j].vertex_range.end = commands[j + 1].vertex_range.start
                      /\ commands[j].index_range.end = commands[j + 1].index_range.start

\* C3: after prepare has assembled a frame, every command's vertex range and
\* index range is well-formed and lies within the assembled buffers.
C3_RangesValid ==
    (pc = "prepared" /\ ui # NoUi) =>
        \A j \in 1..Len(commands) :
            /\ 0 <= commands[j].vertex_range.start
            /\ commands[j].vertex_range.start <= commands[j].vertex_range.end
            /\ commands[j].vertex_range.end <= vertex[slot]
            /\ 0 <= commands[j].index_range.start
            /\ commands[j].index_range.start <= commands[j].index_range.end
            /\ commands[j].index_range.end <= index[slot]

\* A frame of two lists: the second list's command covers the tail of the buffers.
C3_Witness ==
    /\ pc = "prepared"
    /\ Len(commands) = 2
    /\ commands[2].vertex_range = Range(4, 8)
    /\ commands[2].index_range = Range(6, 12)
    /\ vertex[slot] = 8
    /\ index[slot] = 12

\* C4: the number of vertices (indices) prepare uploads is the sum of the
\* draw lists' vertex (index) counts; raw callbacks add nothing of their own.
C4_CountsPreserved ==
    (pc = "prepared" /\ ui # NoUi) =>
        /\ vertex[slot] = SumSeq([l \in 1..Len(ui.draw_data) |-> Len(ui.draw_data[l].vtx_buffer)])
        /\ index[slot] = SumSeq([l \in 1..Len(ui.draw_data) |-> Len(ui.draw_data[l].idx_buffer)])

\* A list holding a raw callback and a quad: the quad's data is uploaded.
C4_Witness ==
    /\ pc = "prepared"
    /\ ui # NoUi
    /\ \E l \in 1..Len(ui.draw_data) :
          /\ \E k \in 1..Len(ui.draw_data[l].cmd_buffer) :
                ui.draw_data[l].cmd_buffer[k].kind = "RawCallback"
          /\ Len(ui.draw_data[l].vtx_buffer) = 4
    /\ vertex[slot] = 4
    /\ index[slot] = 6

\* C5: a command whose texture is not loaded gets no indexed draw call: the
\* draw phase issues as many draw calls as the frame has commands with a
\* loaded texture.
C5_NotReadyOmitted ==
    pc = "drawn" =>
        Len(DrawCalls(encoder)) =
            Cardinality({j \in 1..Len(FrameDraws) : FrameDraws[j].cmd.texture_id \in loaded})

\* C6: a draw phase binds the graphics pipeline exactly once, as its first
\* call, however many commands there are.
C6_PipelineBoundOnce ==
    pc = "drawn" =>
        /\ Cardinality(Positions(encoder, "bind_graphics_pipeline")) = 1
        /\ encoder[1].op = "bind_graphics_pipeline"

\* C6 amended: a draw phase binds the graphics pipeline once per command it
\* replays (not at all for an empty list), each time before that command's
\* scissor and draw.
C6_PipelineBoundPerCommand ==
    pc = "drawn" =>
        LET B == Positions(encoder, "bind_graphics_pipeline")
            D == Positions(encoder, "draw_indexed")
        IN  /\ Cardinality(B) = Len(FrameDraws)
            /\ Cardinality(D) = Len(FrameDraws)
            /\ \A s \in Positions(encoder, "set_scissors") :
                  Cardinality({b \in B : b < s /\ \A d \in D : d < s => d < b}) = 1

\* A draw phase of two commands, with two pipeline binds.
C6_Witness ==
    /\ pc = "drawn"
    /\ Cardinality(Positions(encoder, "bind_graphics_pipeline")) = 2
    /\ Cardinality(Positions(encoder, "draw_indexed")) = 2

\* C7: after every draw phase the command list is empty, also for an empty
\* frame, so a draw phase replays the commands of its own frame only.
C7_CommandsCleared ==
    /\ pc \in {"drawn", "idle"} => commands = <<>>
    /\ pc = "drawn" => Len(DrawCalls(encoder)) = Len(FrameDraws)

\* A draw phase that replayed a command and left the list empty.
C7_Witness ==
    /\ pc = "drawn"
    /\ Len(DrawCalls(encoder)) >= 1
    /\ commands = <<>>

\* C8: prepare reports DrawRecord exactly when the prepared command list is
\* non-empty.
C8_RecordIffCommands ==
    pc = "prepared" => (result = "DrawRecord" <=> commands # <<>>)

\* C8 amended: prepare reports DrawRecord always, also for an empty frame
\* and when no UI frame is current.
C8_AlwaysDrawRecord ==
    pc = "prepared" => result = "DrawRecord"

\* A prepare without a current UI frame that reported DrawRecord.
C8_Witness ==
    /\ pc = "prepared"
    /\ ui = NoUi
    /\ commands = <<>>
    /\ result = "DrawRecord"

\* C9: the indexed draw calls of a draw phase come in the order of the
\* command list: the k-th draw call, and the scissor set for it, are those of
\* the k-th command.
C9_DrawOrder ==
    [][(pc = "prepared" /\ pc' = "drawn") =>
        /\ Len(DrawCalls(encoder')) = Len(commands)
        /\ Len(ScissorCalls(encoder')) = Len(commands)
        /\ \A k \in 1..Len(commands) :
              /\ ScissorCalls(encoder')[k].rect = commands[k].scissor
              /\ DrawCalls(encoder')[k].base_vertex = commands[k].vertex_range.start]_vars

\* A draw phase of two commands with different scissors, drawn in list order.
C9_Witness ==
    /\ pc = "drawn"
    /\ Len(ScissorCalls(encoder)) = 2
    /\ ScissorCalls(encoder)[1].rect.x = -20000
    /\ ScissorCalls(encoder)[2].rect.x = 0

\* The scissor, constant push and draw call of one replayed command.
PerCommandCalls(draw, c) ==
    <<[op |-> "set_scissors", rect |-> draw.scissor],
      [op |-> "push_constants", data |-> c],
      [op |-> "draw_indexed", indices |-> draw.index_range,
       base_vertex |-> draw.vertex_range.start, instances |-> Range(0, 1)]>>

RECURSIVE PerCommandCallsOf(_, _)
PerCommandCallsOf(cmds, c) ==
    IF cmds = <<>> THEN <<>>
    ELSE PerCommandCalls(Head(cmds), c) \o PerCommandCallsOf(Tail(cmds), c)

\* C10: for every replayed command the encoder sets the command's scissor,
\* then pushes the transform constant, then draws the command's index range
\* with base vertex vertex_range.start and instances [0,1); a frame of one
\* list of 4 vertices and 6 indices with one command of a loaded texture
\* gives one scissor, one texture bind, one push and one draw of [0,6) from
\* base vertex 0.
C10_PerCommandCalls ==
    [][(pc = "prepared" /\ pc' = "drawn") =>
        /\ SelectSeq(encoder', IsPerCommandCall) = PerCommandCallsOf(commands, constant)
        /\ ( /\ ui # NoUi
             /\ Len(ui.draw_data) = 1
             /\ Len(ui.draw_data[1].vtx_buffer) = 4
             /\ Len(ui.draw_data[1].idx_buffer) = 6
             /\ Len(FrameDraws) = 1
             /\ FrameDraws[1].cmd.texture_id \in loaded )
           => /\ Cardinality(Positions(encoder', "set_scissors")) = 1
              /\ Cardinality(Positions(encoder', "bind_texture")) = 1
              /\ Cardinality(Positions(encoder', "push_constants")) = 1
              /\ DrawCalls(encoder') =
                    <<[op |-> "draw_indexed", indices |-> Range(0, 6),
                       base_vertex |-> 0, instances |-> Range(0, 1)]>>]_vars

\* The draw phase of the one-quad frame with clip rect (0,0,100,50).
C10_Witness ==
    /\ pc = "drawn"
    /\ ui # NoUi
    /\ Len(ui.draw_data) = 1
    /\ Len(FrameDraws) = 1
    /\ Positions(encoder, "bind_texture") # {}
    /\ ScissorCalls(encoder) = <<[op |-> "set_scissors", rect |-> [x |-> 0, y |-> 0, w |-> 100, h |-> 50]]>>
    /\ DrawCalls(encoder) =
          <<[op |-> "draw_indexed", indices |-> Range(0, 6),
             base_vertex |-> 0, instances |-> Range(0, 1)]>>

\* Number of the device calls named op.
DeviceCalls(op) == Cardinality({k \in 1..Len(device) : device[k].op = op})

\* C11: when the pipeline build fails after the layout was created,
\* build_imgui_pipeline destroys that layout exactly once, as its last device
\* call, returns no pipeline and creates nothing a second time; when the
\* layout creation fails nothing is released; on success the layout is not
\* destroyed.
C11_BuildReleasesLayout ==
    /\ (pc = "failed" /\ DeviceCalls("create_graphics_pipeline") = 1) =>
          /\ DeviceCalls("create_pipeline_layout") = 1
          /\ DeviceCalls("destroy_pipeline_layout") = 1
          /\ device[Len(device)].op = "destroy_pipeline_layout"
          /\ pipeline = "none"
          /\ pipeline_layout = "destroyed"
    /\ (pc = "failed" /\ device # <<>> /\ ~device[1].ok) =>
          /\ device = <<[op |-> "create_pipeline_layout", ok |-> FALSE]>>
          /\ pipeline = "none"
          /\ pipeline_layout = "none"
    /\ pc \in {"idle", "prepared", "drawn"} =>
          /\ DeviceCalls("create_pipeline_layout") = 1
          /\ DeviceCalls("create_graphics_pipeline") = 1
          /\ DeviceCalls("destroy_pipeline_layout") = 0
          /\ pipeline = "live"
          /\ pipeline_layout = "live"

\* A build whose pipeline creation failed after the layout was created.
C11_Witness ==
    /\ pc = "failed"
    /\ DeviceCalls("create_graphics_pipeline") = 1
    /\ device[1] = [op |-> "create_pipeline_layout", ok |-> TRUE]
    /\ device[Len(device)].op = "destroy_pipeline_layout"

\* C12: over build, frames and dispose, the pipeline and the layout of a
\* successful build are destroyed by dispose, each exactly once, and not
\* before; after dispose the render group takes no further step.
C12_DestroyedOnceByDispose ==
    /\ [](/\ pc \in {"idle", "prepared", "drawn"} =>
                /\ DeviceCalls("destroy_graphics_pipeline") = 0
                /\ DeviceCalls("destroy_pipeline_layout") = 0
          /\ pc = "disposed" =>
                /\ DeviceCalls("destroy_graphics_pipeline") = 1
                /\ DeviceCalls("destroy_pipeline_layout") = 1
                /\ pipeline = "destroyed"
                /\ pipeline_layout = "destroyed")
    /\ [][pc # "disposed"]_vars

\* A render group disposed after it has drawn frames on both slots.
C12_Witness ==
    /\ pc = "disposed"
    /\ vertex[0] > 0
    /\ vertex[1] > 0
    /\ DeviceCalls("destroy_graphics_pipeline") = 1
    /\ DeviceCalls("destroy_pipeline_layout") = 1

\* C13: prepare(index) writes the vertex and index data of slot `index` only,
\* draw_inline(index) binds slot `index` only, and no slot whose submission
\* is still outstanding is changed by any step.
C13_SlotsIsolated ==
    [][/\ (pc = "idle" /\ pc' = "prepared") =>
            \A s \in Slots \ {slot'} : vertex'[s] = vertex[s] /\ index'[s] = index[s]
       /\ (pc = "prepared" /\ pc' = "drawn") =>
            \A k \in 1..Len(encoder') :
                encoder'[k].op \in {"bind_vertex", "bind_index"} => encoder'[k].slot = slot
       /\ \A s \in inflight : vertex'[s] = vertex[s] /\ index'[s] = index[s]]_vars

\* Slot 1 is written and bound for a new frame while the frame on slot 0 is
\* still outstanding and keeps its data.
C13_Witness ==
    /\ pc = "drawn"
    /\ inflight = {0}
    /\ slot = 1
    /\ vertex[0] = 4
    /\ index[0] = 6
    /\ ui # NoUi
    /\ vertex[1] = 4
    /\ \E k \in 1..Len(encoder) : encoder[k] = [op |-> "bind_vertex", slot |-> 1]

\* C14: every prepare call runs the texture maintenance exactly once,
\* whether or not a UI is current.
C14_MaintainEveryPrepare == pc = "prepared" => maintains = 1

\* C15: in a frame with a UI of display size (w, h), w and h positive, the
\* constant computed by that frame's prepare has scale (2/w, 2/h) and
\* translation (-1, -1), and it is the constant pushed for every draw call
\* of the frame.
C15_TransformConstant ==
    (pc \in {"prepared", "drawn"} /\ ui # NoUi) =>
        /\ \A k \in 1..2 :
              /\ constant.scale[k][2] # 0
              /\ constant.scale[k][1] * ui.display_size[k] = 2 * constant.scale[k][2]
              /\ constant.translation[k][2] # 0
              /\ constant.translation[k][1] = -1 * constant.translation[k][2]
        /\ \A k \in 1..Len(encoder) :
              encoder[k].op = "push_constants" => encoder[k].data = constant
        /\ Cardinality(Positions(encoder, "push_constants")) = Len(DrawCalls(encoder))

\* A frame on a 4 x 2 display, prepared after a frame on another display
\* size, pushes scale (2/4, 2/2) for its draw call.
C15_Witness ==
    /\ pc = "drawn"
    /\ ui # NoUi
    /\ ui.display_size = <<4, 2>>
    /\ inflight # {}
    /\ \E k \in 1..Len(encoder) :
          /\ encoder[k].op = "push_constants"
          /\ encoder[k].data.scale = <<<<2, 4>>, <<2, 2>>>>
          /\ encoder[k].data.translation = <<<<-1, 1>>, <<-1, 1>>>>

\* The raw-callback commands of the draw data in iteration order, each with
\* its list, the number of indexed-draw commands before it and the number
\* of vertices and indices of the lists before its own.
RawCallbacksOf(dd) ==
    LET f == FlatCmds(dd, 1)
        at == SelectSeq([k \in 1..Len(f) |-> k], LAMBDA k : f[k].cmd.kind = "RawCallback")
    IN  [j \in 1..Len(at) |->
            [raw_list |-> dd[f[at[j]].list],
             raw_cmd |-> f[at[j]].cmd,
             commands |-> Cardinality({m \in 1..(at[j] - 1) : f[m].cmd.kind = "Elements"}),
             vertices |-> ListStartV(dd, f[at[j]].list),
             indices |-> ListStartI(dd, f[at[j]].list)]]

\* C16: prepare invokes the callback of every raw-callback command exactly
\* once, in iteration order, with its own list and command, at a moment when
\* the flat buffers hold only the lists before its own and the command list
\* only the indexed draws before it; the raw callback adds no command, no
\* vertex and no index.
C16_RawCallbackInvoked ==
    (pc = "prepared" /\ ui # NoUi) =>
        /\ callbacks = RawCallbacksOf(ui.draw_data)
        /\ Len(commands) = Len(IndexedDraws(ui.draw_data))
        /\ vertex[slot] = 4 * Len(IndexedDraws(ui.draw_data))
        /\ index[slot] = 6 * Len(IndexedDraws(ui.draw_data))

\* A raw callback placed before a quad of the same list: it is called once
\* while the flat buffers are still empty, and only the quad is recorded.
C16_Witness ==
    /\ pc = "prepared"
    /\ ui # NoUi
    /\ Len(callbacks) = 1
    /\ callbacks[1].raw_cmd = RawCallback
    /\ Len(callbacks[1].raw_list.vtx_buffer) = 4
    /\ callbacks[1].vertices = 0
    /\ callbacks[1].commands = 0
    /\ Len(commands) = 1
    /\ vertex[slot] = 4

\* The draw data with every reset-render-state marker taken out of the
\* command buffers; the vertex and index buffers are kept.
WithoutReset(dd) ==
    [l \in 1..Len(dd) |->
        [dd[l] EXCEPT !.cmd_buffer =
            SelectSeq(@, LAMBDA cmd : cmd.kind # "ResetRenderState")]]

\* C17: a reset-render-state marker has no effect: the frame's command
\* list, uploaded vertex and index data, constant, result and encoder calls
\* are those of the same frame with the markers taken out.
C17_ResetIsNoOp ==
    (pc \in {"prepared", "drawn"} /\ ui # NoUi) =>
        LET a == Assemble(<<>>, WithoutReset(ui.draw_data)) IN
        /\ pc = "prepared" => commands = a.commands
        /\ pc = "drawn" => encoder = EncodeAll(a.commands, slot, loaded, constant)
        /\ vertex[slot] = Len(a.vertices)
        /\ index[slot] = Len(a.indices)
        /\ Len(callbacks) = Len(a.callbacks)
        /\ constant = ConstantFor(ui.display_size)
        /\ result = "DrawRecord"

\* A drawn frame whose list holds a quad followed by the marker.
C17_Witness ==
    /\ pc = "drawn"
    /\ ui # NoUi
    /\ Len(ui.draw_data) = 1
    /\ ui.draw_data[1].cmd_buffer = <<Elements(6, <<0, 0, 100, 50>>, 1), ResetRenderState>>
    /\ loaded = {1}
    /\ Len(DrawCalls(encoder)) = 1
    /\ vertex[slot] = 4

\* The values of a signed 16-bit integer.
InI16(v) == -32768 <= v /\ v <= 32767

\* A clip rectangle (x1, y1, x2, y2) with coordinates in the signed 16-bit
\* range and x2 >= x1, y2 >= y1.
ClipOrdered(clip) ==
    /\ \A k \in 1..4 : InI16(clip[k])
    /\ clip[3] >= clip[1]
    /\ clip[4] >= clip[2]

\* The rectangle {x1, y1, x2 - x1, y2 - y1}.
RectOf(clip) == [x |-> clip[1], y |-> clip[2], w |-> clip[3] - clip[1], h |-> clip[4] - clip[2]]

\* The frame's j-th indexed draw has the scissor RectOf(its clip rectangle),
\* with non-negative extent, in the command list after prepare and in the
\* set_scissors call that precedes its draw call.
ScissorIsRect(j) ==
    LET rect == RectOf(FrameDraws[j].cmd.clip_rect) IN
    /\ rect.w >= 0 /\ rect.h >= 0
    /\ pc = "prepared" => (j <= Len(commands) /\ commands[j].scissor = rect)
    /\ pc = "drawn" =>
          /\ j <= Len(ScissorCalls(encoder))
          /\ ScissorCalls(encoder)[j].rect = rect
          /\ \E p \in Positions(encoder, "set_scissors"), q \in Positions(encoder, "draw_indexed") :
                /\ p < q
                /\ encoder[p].rect = rect
                /\ Cardinality({m \in Positions(encoder, "draw_indexed") : m <= q}) = j
                /\ Cardinality({m \in Positions(encoder, "set_scissors") : m <= p}) = j

\* C18 as stated: for a clip rectangle with 16-bit coordinates, x2 >= x1 and
\* y2 >= y1, the scissor is {x1, y1, x2 - x1, y2 - y1} and is the rectangle
\* set before the command's draw call.
C18_ScissorFromClip ==
    (pc \in {"prepared", "drawn"} /\ ui # NoUi) =>
        \A j \in 1..Len(FrameDraws) :
            ClipOrdered(FrameDraws[j].cmd.clip_rect) => ScissorIsRect(j)

\* C18 amended: the same, for clip rectangles whose extents x2 - x1 and
\* y2 - y1 are themselves within the signed 16-bit range.
C18_ScissorFromClipInRange ==
    (pc \in {"prepared", "drawn"} /\ ui # NoUi) =>
        \A j \in 1..Len(FrameDraws) :
            LET clip == FrameDraws[j].cmd.clip_rect IN
            (ClipOrdered(clip) /\ InI16(clip[3] - clip[1]) /\ InI16(clip[4] - clip[2]))
                => ScissorIsRect(j)

\* The clip rectangle (10, 20, 110, 70) drawn with the scissor
\* {10, 20, 100, 50}.
C18_Witness ==
    /\ pc = "drawn"
    /\ ui # NoUi
    /\ Len(FrameDraws) = 1
    /\ FrameDraws[1].cmd.clip_rect = <<10, 20, 110, 70>>
    /\ ScissorCalls(encoder) =
          <<[op |-> "set_scissors", rect |-> [x |-> 10, y |-> 20, w |-> 100, h |-> 50]]>>
    /\ Len(DrawCalls(encoder)) = 1

\* C19: whatever the order of the prepare and draw calls, every draw that
\* draw_inline(index) replays stays within the data last written to slot
\* `index`: its index range ends within the slot's indices and its base
\* vertex lies within the slot's vertices.
C19_ReplaysLatestPrepare ==
    pc = "drawn" =>
        \A k \in 1..Len(DrawCalls(encoder)) :
            /\ DrawCalls(encoder)[k].indices.end <= index[slot]
            /\ DrawCalls(encoder)[k].base_vertex < vertex[slot]

====
